---- MODULE Spec2Model ----
(***************************************************************************)
(* A model of dnslib's name handling: the bit helpers (bit.py), the        *)
(* DNSLabel value type and the DNSBuffer name codec (label.py).            *)
(*                                                                         *)
(* Bytes are integers 0..255, a byte string is a sequence of bytes, a      *)
(* DNSLabel is its `label` tuple: a sequence of byte strings.              *)
(*                                                                         *)
(* Seven specifications share the variables:                               *)
(*   Spec        one DNSBuffer filled by encode_name /                     *)
(*               encode_name_nocompress calls and read back by decode_name *)
(*   SpecDecode  decode_name on arbitrary buffer contents and offsets      *)
(*   SpecLabel   the DNSLabel operations                                   *)
(*   SpecMsg     parse / pack / re-parse / re-pack of a message            *)
(*   SpecBits    set_bits followed by get_bits on one field                *)
(*   SpecBig     encode_name on a buffer of about 2^14 bytes               *)
(*   SpecClient  the query exchange of the command-line client             *)
(***************************************************************************)
EXTENDS Integers, Sequences, FiniteSets, TLC

VARIABLES
    data,    \* DNSBuffer.data: the bytes of the buffer
    offset,  \* DNSBuffer.offset: the cursor
    names,   \* DNSBuffer.names: suffix tuple -> offset
    hist,    \* history: the encode calls made on the buffer, in order
    ret,     \* outcome of the last call
    x,       \* a DNSLabel (SpecLabel)
    y,       \* a DNSLabel (SpecLabel)
    msg,     \* the message exchange of check_decode (SpecMsg)
    bitop,   \* one set_bits / get_bits computation (SpecBits)
    cli      \* the client's query exchange (SpecClient)

vars == <<data, offset, names, hist, ret, x, y, msg, bitop, cli>>

(***************************************************************************)
(* Program constants                                                       *)
(***************************************************************************)
MaxLabelLen == 63
MaxNameLen == 253
PointerBits == 14

(***************************************************************************)
(* Bounds of the model                                                     *)
(***************************************************************************)
MaxCalls == 3

(***************************************************************************)
(* Byte-string helpers                                                     *)
(***************************************************************************)
Rep(b, n) == [i \in 1..n |-> b]

RECURSIVE SumLen(_)
SumLen(ls) == IF ls = <<>> THEN 0 ELSE Len(Head(ls)) + SumLen(Tail(ls))

RECURSIVE Pow2(_)
Pow2(n) == IF n = 0 THEN 1 ELSE 2 * Pow2(n - 1)

(***************************************************************************)
(* Python's integer operators on non-negative integers                     *)
(***************************************************************************)
RECURSIVE BitAnd(_, _)
BitAnd(a, b) ==
    IF a = 0 \/ b = 0 THEN 0
    ELSE (a % 2) * (b % 2) + 2 * BitAnd(a \div 2, b \div 2)

RECURSIVE BitOr(_, _)
BitOr(a, b) ==
    IF a = 0 THEN b
    ELSE IF b = 0 THEN a
    ELSE (IF a % 2 = 1 \/ b % 2 = 1 THEN 1 ELSE 0) + 2 * BitOr(a \div 2, b \div 2)

RECURSIVE BitXor(_, _)
BitXor(a, b) ==
    IF a = 0 THEN b
    ELSE IF b = 0 THEN a
    ELSE (IF a % 2 = b % 2 THEN 0 ELSE 1) + 2 * BitXor(a \div 2, b \div 2)

Shl(a, n) == a * Pow2(n)
Shr(a, n) == a \div Pow2(n)

(***************************************************************************)
(* bit.py                                                                  *)
(***************************************************************************)
get_bits(d, off, bits) ==
    LET mask == Shl(Shl(1, bits) - 1, off)
    IN  Shr(BitAnd(d, mask), off)

set_bits(d, value, off, bits) ==
    LET mask == Shl(Shl(1, bits) - 1, off)
        clear == BitXor(65535, mask)
    IN  BitOr(BitAnd(d, clear), BitAnd(Shl(value, off), mask))

(***************************************************************************)
(* bytes.decode(): is the byte string well-formed UTF-8                    *)
(***************************************************************************)
IsCont(b) == b >= 128 /\ b <= 191

RECURSIVE Utf8Ok(_)
Utf8Ok(s) ==
    IF \A i \in 1..Len(s) : s[i] < 128 THEN TRUE
    ELSE LET b == s[1]
             n == Len(s)
         IN  IF b < 128 THEN Utf8Ok(Tail(s))
             ELSE IF b >= 194 /\ b <= 223
                  THEN n >= 2 /\ IsCont(s[2]) /\ Utf8Ok(SubSeq(s, 3, n))
             ELSE IF b >= 224 /\ b <= 239
                  THEN /\ n >= 3
                       /\ IsCont(s[2]) /\ IsCont(s[3])
                       /\ (b = 224 => s[2] >= 160)
                       /\ (b = 237 => s[2] <= 159)
                       /\ Utf8Ok(SubSeq(s, 4, n))
             ELSE IF b >= 240 /\ b <= 244
                  THEN /\ n >= 4
                       /\ IsCont(s[2]) /\ IsCont(s[3]) /\ IsCont(s[4])
                       /\ (b = 240 => s[2] >= 144)
                       /\ (b = 244 => s[2] <= 143)
                       /\ Utf8Ok(SubSeq(s, 5, n))
             ELSE FALSE

(***************************************************************************)
(* DNSLabel.__len__: len(b".".join(self.label))                            *)
(***************************************************************************)
NameLen(label) == IF label = <<>> THEN 0 ELSE SumLen(label) + Len(label) - 1

(***************************************************************************)
(* DNSBuffer.decode_name.                                                  *)
(*                                                                         *)
(* DecodeFrom is the while loop of one activation: d the data, o the       *)
(* cursor, last the argument, label the labels read so far.  followed is   *)
(* the set of offsets of the pointers the enclosing activations jumped     *)
(* through.  An activation's behaviour is a function of (cursor, last),    *)
(* and following the pointer at q starts the activation                    *)
(* (target(q), q + 2); so a pointer followed a second time repeats the     *)
(* descent for ever.  CPython ends that with RecursionError, which is the  *)
(* outcome "RecursionError" here.                                          *)
(*                                                                         *)
(* The result is [st, label, offset, jumps]: offset is where the cursor is  *)
(* left, jumps lists the pointers followed, each as [at, to]: the offset   *)
(* of the pointer's first byte and the offset jumped to.                   *)
(***************************************************************************)
Remaining(d, o) == Len(d) - o

Fail(kind, o) == [st |-> kind, label |-> <<>>, offset |-> o, jumps |-> <<>>]

FollowPointer(pointer, cursor) == pointer < cursor

\* self.offset = save, once the pointed-to remainder is decoded
CursorNotRestored(save, r) == r.offset
CursorAfterPointer(save, r) == save

RECURSIVE DecodeFrom(_, _, _, _, _)
DecodeFrom(d, o, last, label, followed) ==
    IF Remaining(d, o) < 1 THEN Fail("BufferError", o)
    ELSE LET length == d[o + 1] IN
      IF get_bits(length, 6, 2) = 3
      THEN \* pointer: step back one byte and read 16 bits
           IF Remaining(d, o) < 2 THEN Fail("BufferError", o)
           ELSE LET pointer == get_bits(d[o + 1] * 256 + d[o + 2], 0, PointerBits)
                    save == o + 2
                IN  IF last = save THEN Fail("BufferError", save)
                    ELSE IF ~FollowPointer(pointer, save) THEN Fail("BufferError", save)
                    ELSE IF o \in followed THEN Fail("RecursionError", pointer)
                    ELSE LET r == DecodeFrom(d, pointer, save, <<>>, followed \cup {o})
                             j == <<[at |-> o, to |-> pointer]>>
                         IN  IF r.st = "ok"
                             THEN [st |-> "ok", label |-> label \o r.label,
                                   offset |-> CursorAfterPointer(save, r),
                                   jumps |-> j \o r.jumps]
                             ELSE [r EXCEPT !.jumps = j \o r.jumps]
      ELSE IF length > 0
           THEN IF length > Remaining(d, o + 1) THEN Fail("BufferError", o + 1)
                ELSE LET l == SubSeq(d, o + 2, o + 1 + length)
                     IN  IF ~Utf8Ok(l) THEN Fail("BufferError", o + 1 + length)
                         ELSE DecodeFrom(d, o + 1 + length, last, Append(label, l), followed)
           ELSE [st |-> "ok", label |-> label, offset |-> o + 1, jumps |-> <<>>]

decode_name(d, o) == DecodeFrom(d, o, -1, <<>>, {})

(***************************************************************************)
(* DNSBuffer.encode_name and encode_name_nocompress.                       *)
(*                                                                         *)
(* Both are called with the cursor at the end of the data, where a write   *)
(* extends the buffer.  The result is [st, data, offset, names].           *)
(***************************************************************************)
BufWrite(d, bytes) == d \o bytes

PackH(v) == <<v \div 256, v % 256>>

PutNothing(nm, key, v) == nm
Put(nm, key, v) == [k \in DOMAIN nm \cup {key} |-> IF k = key THEN v ELSE nm[k]]

LabelTooLong(element) == Len(element) > MaxLabelLen

RECURSIVE EncodeLoop(_, _, _, _)
EncodeLoop(d, o, nm, name) ==
    IF name = <<>>
    THEN [st |-> "ok", data |-> BufWrite(d, <<0>>), offset |-> o + 1, names |-> nm]
    ELSE IF name \in DOMAIN nm
    THEN LET pointer == set_bits(nm[name], 3, PointerBits, 2)
         IN  [st |-> "ok", data |-> BufWrite(d, PackH(pointer)),
              offset |-> o + 2, names |-> nm]
    ELSE LET nm2 == Put(nm, name, o)
             element == Head(name)
         IN  IF LabelTooLong(element)
             THEN [st |-> "DNSLabelError", data |-> d, offset |-> o, names |-> nm2]
             ELSE EncodeLoop(BufWrite(d, <<Len(element)>> \o element),
                             o + 1 + Len(element), nm2, Tail(name))

encode_name(d, o, nm, name) ==
    IF NameLen(name) > MaxNameLen
    THEN [st |-> "DNSLabelError", data |-> d, offset |-> o, names |-> nm]
    ELSE EncodeLoop(d, o, nm, name)

RECURSIVE NoCompressLoop(_, _, _, _)
NoCompressLoop(d, o, nm, name) ==
    IF name = <<>>
    THEN [st |-> "ok", data |-> BufWrite(d, <<0>>), offset |-> o + 1, names |-> nm]
    ELSE LET element == Head(name)
         IN  IF LabelTooLong(element)
             THEN [st |-> "DNSLabelError", data |-> d, offset |-> o, names |-> nm]
             ELSE NoCompressLoop(BufWrite(d, <<Len(element)>> \o element),
                                 o + 1 + Len(element), nm, Tail(name))

encode_name_nocompress(d, o, nm, name) ==
    IF NameLen(name) > MaxNameLen
    THEN [st |-> "DNSLabelError", data |-> d, offset |-> o, names |-> nm]
    ELSE NoCompressLoop(d, o, nm, name)

(***************************************************************************)
(* The names handed to the encoders: short valid names that share          *)
(* suffixes, a name with a 64-byte label, a name whose first label is      *)
(* valid and whose second has 64 bytes, and a name of four valid labels    *)
(* whose total length is 254.                                              *)
(***************************************************************************)
La == <<97>>
Lb == <<98>>
L64 == Rep(97, MaxLabelLen + 1)
Long254 == <<Rep(97, 63), Rep(98, 63), Rep(99, 63), Rep(100, 62)>>

ValidNames == {<<>>, <<Lb>>, <<La, Lb>>, <<Lb, La, Lb>>}
InvalidNames == {<<L64>>, <<La, L64>>, Long254}
CodecNames == ValidNames \cup InvalidNames

IsValidName(n) ==
    /\ NameLen(n) <= MaxNameLen
    /\ \A i \in 1..Len(n) : Len(n[i]) >= 1 /\ Len(n[i]) <= MaxLabelLen

(***************************************************************************)
(* Spec: one DNSBuffer                                                     *)
(***************************************************************************)
EmptyDict == [k \in {} |-> 0]
NoRet == [op |-> "none", st |-> "ok", arg |-> <<>>, start |-> 0, label |-> <<>>,
          jumps |-> <<>>, flag |-> FALSE, val |-> 0]
NoMsg == [pc |-> "idle"]
NoBits == [pc |-> "idle"]
NoCli == [pc |-> "idle"]

Init ==
    /\ data = <<>>
    /\ offset = 0
    /\ names = EmptyDict
    /\ hist = <<>>
    /\ ret = NoRet
    /\ x = <<>>
    /\ y = <<>>
    /\ msg = NoMsg
    /\ bitop = NoBits
    /\ cli = NoCli

EncodeCall(op, r, n) ==
    /\ data' = r.data
    /\ offset' = r.offset
    /\ names' = r.names
    /\ hist' = Append(hist, [op |-> op, name |-> n, start |-> offset,
                             end |-> r.offset, st |-> r.st])
    /\ ret' = [NoRet EXCEPT !.op = op, !.st = r.st, !.arg = n, !.start = offset]
    /\ UNCHANGED <<x, y, msg, bitop, cli>>

EncodeName ==
    /\ Len(hist) < MaxCalls
    /\ offset = Len(data)
    /\ \E n \in CodecNames :
          EncodeCall("encode_name", encode_name(data, offset, names, n), n)

EncodeNameNoCompress ==
    /\ Len(hist) < MaxCalls
    /\ offset = Len(data)
    /\ \E n \in CodecNames :
          EncodeCall("encode_name_nocompress",
                     encode_name_nocompress(data, offset, names, n), n)

\* b.offset = 0
Rewind ==
    /\ offset # 0
    /\ offset' = 0
    /\ ret' = NoRet
    /\ UNCHANGED <<data, names, hist, x, y, msg, bitop, cli>>

DecodeName ==
    /\ data # <<>>
    /\ LET r == decode_name(data, offset)
       IN  /\ offset' = r.offset
           /\ ret' = [NoRet EXCEPT !.op = "decode_name", !.st = r.st, !.start = offset,
                                    !.label = r.label, !.jumps = r.jumps]
    /\ UNCHANGED <<data, names, hist, x, y, msg, bitop, cli>>

Next == EncodeName \/ EncodeNameNoCompress \/ Rewind \/ DecodeName

Spec == Init /\ [][Next]_vars

(***************************************************************************)
(* C3: a buffer written by encode_name calls with valid names only, and    *)
(* smaller than 2^14 bytes, reads back name by name: every decode_name     *)
(* call made after b.offset = 0 starts where a written name starts (or at  *)
(* the end of the data), returns that name, and leaves the cursor at the   *)
(* first byte after that name's own encoding, also when the name ends in   *)
(* a pointer.                                                              *)
(***************************************************************************)
OnlyValidEncodeName ==
    \A i \in 1..Len(hist) : hist[i].op = "encode_name" /\ IsValidName(hist[i].name)

C3_NameRoundTrip ==
    (OnlyValidEncodeName /\ Len(data) < Pow2(PointerBits) /\ ret.op = "decode_name")
    => \/ ret.start = Len(data) /\ ret.st = "BufferError"
       \/ \E k \in 1..Len(hist) :
             /\ ret.start = hist[k].start
             /\ ret.st = "ok"
             /\ ret.label = hist[k].name
             /\ offset = hist[k].end

\* the third name read back is a label and a pointer to a name that itself
\* ends in a pointer
C3_Witness ==
    /\ OnlyValidEncodeName
    /\ Len(hist) = 3
    /\ hist[1].name = <<Lb>> /\ hist[2].name = <<La, Lb>> /\ hist[3].name = <<Lb, La, Lb>>
    /\ data = <<1, 98, 0, 1, 97, 192, 0, 1, 98, 192, 3>>
    /\ ret.op = "decode_name" /\ ret.start = 7
    /\ ret.label = <<Lb, La, Lb>>
    /\ offset = 11

(***************************************************************************)
(* C6: encode_name and encode_name_nocompress raise DNSLabelError for      *)
(* every name longer than 253 or with a label longer than 63 bytes, in     *)
(* every buffer state earlier calls (also calls that raised) can leave.    *)
(***************************************************************************)
WithinLimits(n) ==
    /\ NameLen(n) <= MaxNameLen
    /\ \A i \in 1..Len(n) : Len(n[i]) <= MaxLabelLen

C6_OverlongAlwaysRaises ==
    (ret.op \in {"encode_name", "encode_name_nocompress"} /\ ~WithinLimits(ret.arg))
    => ret.st = "DNSLabelError"

(***************************************************************************)
(* SpecDecode: decode_name on arbitrary data.  The buffers are every byte  *)
(* string of 1..MaxBufLen bytes over ByteAlphabet (a terminator, label     *)
(* lengths, a letter, the reserved length bytes 64 and 128, a pointer's    *)
(* first byte), and a few long ones: a length byte of 63, 64 or 128        *)
(* followed by that many letters and a terminator.                         *)
(***************************************************************************)
MaxBufLen == 5

ByteAlphabet == {0, 1, 64, 97, 128, 192}

ShortBuffers == UNION {[1..n -> ByteAlphabet] : n \in 1..MaxBufLen}

LongBuffers == {<<n>> \o Rep(97, n) \o <<0>> : n \in {63, 64, 128}}

InitDecode ==
    /\ data \in ShortBuffers \cup LongBuffers
    /\ offset = 0
    /\ names = EmptyDict
    /\ hist = <<>>
    /\ ret = NoRet
    /\ x = <<>>
    /\ y = <<>>
    /\ msg = NoMsg
    /\ bitop = NoBits
    /\ cli = NoCli

\* b.offset = k
Seek ==
    /\ \E k \in 0..Len(data) : k # offset /\ offset' = k
    /\ ret' = NoRet
    /\ UNCHANGED <<data, names, hist, x, y, msg, bitop, cli>>

NextDecode == Seek \/ DecodeName

SpecDecode == InitDecode /\ [][NextDecode]_vars

(***************************************************************************)
(* C1: decode_name ends by returning a name or raising BufferError for     *)
(* every buffer and every start offset; a pointer chain that comes back    *)
(* to a pointer already followed is rejected, never followed again.        *)
(***************************************************************************)
C1_DecodeReturnsOrBufferError ==
    ret.op = "decode_name"
    => /\ ret.st \in {"ok", "BufferError"}
       /\ \A i, j \in 1..Len(ret.jumps) : i # j => ret.jumps[i].at # ret.jumps[j].at

(***************************************************************************)
(* C4: a pointer at q whose target is q, q + 1 or later makes decode_name  *)
(* raise BufferError: a call that jumped through such a pointer, or that   *)
(* starts on one, ends in BufferError.                                     *)
(***************************************************************************)
IsPointerAt(d, q) == Remaining(d, q) >= 2 /\ d[q + 1] >= 192

TargetAt(d, q) == (d[q + 1] * 256 + d[q + 2]) % Pow2(PointerBits)

C4_NoForwardOrSelfPointer ==
    ret.op = "decode_name"
    => /\ \A i \in 1..Len(ret.jumps) :
             ret.jumps[i].to >= ret.jumps[i].at => ret.st = "BufferError"
       /\ (IsPointerAt(data, ret.start) /\ TargetAt(data, ret.start) >= ret.start)
             => ret.st = "BufferError"

(***************************************************************************)
(* C5: a length byte with high bits 01 or 10 (64..191) makes decode_name   *)
(* raise; no label longer than 63 bytes is ever returned.                  *)
(***************************************************************************)
IsReservedLength(b) == b >= 64 /\ b <= 191

C5_ReservedLengthRejected ==
    ret.op = "decode_name"
    => /\ (Remaining(data, ret.start) >= 1 /\ IsReservedLength(data[ret.start + 1]))
             => ret.st = "BufferError"
       /\ \A i \in 1..Len(ret.label) : Len(ret.label[i]) <= MaxLabelLen

(***************************************************************************)
(* DNSLabel.__init__.  An input is [form, v]: another name, a list of      *)
(* byte strings, a byte string, a text string (its code points), None.     *)
(* The result is [st, label].                                              *)
(***************************************************************************)
Dot == 46
Backslash == 92

\* the first index of b in s, 0 when there is none
IndexOf(s, b) ==
    LET at == {i \in 1..Len(s) : s[i] = b}
    IN  IF at = {} THEN 0 ELSE CHOOSE i \in at : \A j \in at : i <= j

\* bytes.split(b".")
RECURSIVE Split(_)
Split(s) ==
    LET i == IndexOf(s, Dot)
    IN  IF i = 0 THEN <<s>>
        ELSE <<SubSeq(s, 1, i - 1)>> \o Split(SubSeq(s, i + 1, Len(s)))

\* bytes.rstrip(b".")
RECURSIVE RStrip(_)
RStrip(s) ==
    IF s # <<>> /\ s[Len(s)] = Dot THEN RStrip(SubSeq(s, 1, Len(s) - 1)) ELSE s

IsDigit(c) == c >= 48 /\ c <= 57

\* ESCAPE.sub(lambda m: chr(int(m[1])), label)
RECURSIVE EscapeSub(_)
EscapeSub(s) ==
    IF IndexOf(s, Backslash) = 0 THEN s
    ELSE IF Len(s) >= 4 /\ s[1] = Backslash /\ IsDigit(s[2]) /\ IsDigit(s[3]) /\ IsDigit(s[4])
    THEN <<100 * (s[2] - 48) + 10 * (s[3] - 48) + (s[4] - 48)>>
             \o EscapeSub(SubSeq(s, 5, Len(s)))
    ELSE <<s[1]>> \o EscapeSub(Tail(s))

\* str.encode("idna") of a text that is all ASCII: every label but the last
\* must have 1..63 characters, the last fewer than 64
IdnaEncode(s) ==
    LET labels == Split(s)
        n == Len(labels)
    IN  IF s = <<>> THEN [st |-> "ok", bytes |-> <<>>]
        ELSE IF \E i \in 1..Len(s) : s[i] >= 128 THEN [st |-> "NotModelled", bytes |-> <<>>]
        ELSE IF \E i \in 1..(n - 1) : Len(labels[i]) = 0 \/ Len(labels[i]) >= 64
             THEN [st |-> "UnicodeError", bytes |-> <<>>]
        ELSE IF Len(labels[n]) >= 64 THEN [st |-> "UnicodeError", bytes |-> <<>>]
        ELSE [st |-> "ok", bytes |-> s]

DNSLabelInit(in) ==
    IF in.form = "name" THEN [st |-> "ok", label |-> in.v]
    ELSE IF in.form = "list" THEN [st |-> "ok", label |-> in.v]
    ELSE IF in.form = "none" \/ in.v = <<>> \/ in.v = <<Dot>> THEN [st |-> "ok", label |-> <<>>]
    ELSE IF in.form = "text"
    THEN LET e == IdnaEncode(EscapeSub(in.v))
         IN  IF e.st = "ok" THEN [st |-> "ok", label |-> Split(RStrip(e.bytes))]
             ELSE [st |-> e.st, label |-> <<>>]
    ELSE [st |-> "ok", label |-> Split(RStrip(in.v))]

(***************************************************************************)
(* DNSLabel operations, on label tuples                                    *)
(***************************************************************************)
\* bytes.lower(): only A..Z change
KeepByte(b) == b
LowerByte(b) == IF b >= 65 /\ b <= 90 THEN b + 32 ELSE b
LowerBytes(l) == [i \in 1..Len(l) |-> LowerByte(l[i])]
LowerLabels(label) == [i \in 1..Len(label) |-> LowerBytes(label[i])]

\* hash() of a tuple of byte strings: a function of the tuple's value
RECURSIVE HashBytes(_)
HashBytes(l) ==
    IF l = <<>> THEN 7
    ELSE IF Len(l) = 1 THEN l[1] + 11
    ELSE LET h == Len(l) \div 2
         IN  (HashBytes(SubSeq(l, 1, h)) * 257 + HashBytes(SubSeq(l, h + 1, Len(l)))
                 + Len(l)) % 65521

RECURSIVE HashTuple(_)
HashTuple(t) ==
    IF t = <<>> THEN 5381
    ELSE (HashTuple(Tail(t)) * 33 + HashBytes(Head(t))) % 65521

HashKey(label) == LowerLabels(label)
DNSLabelHash(label) == HashTuple(HashKey(label))

EqKey(label) == LowerLabels(label)
DNSLabelEq(a, b) == EqKey(a) = EqKey(b)

\* seq[-k:] and seq[:-k] for k >= 0
SliceLast(q, k) == IF k = 0 \/ k >= Len(q) THEN q ELSE SubSeq(q, Len(q) - k + 1, Len(q))
SliceButLast(q, k) == IF k = 0 \/ k >= Len(q) THEN <<>> ELSE SubSeq(q, 1, Len(q) - k)

\* self.add(name): name, then self
DNSLabelAdd(self, name) == IF self # <<>> THEN name \o self ELSE name

matchSuffix(self, suffix) == DNSLabelEq(SliceLast(self, Len(suffix)), suffix)

stripSuffix(self, suffix) ==
    IF matchSuffix(self, suffix) THEN SliceButLast(self, Len(suffix)) ELSE self

(***************************************************************************)
(* SpecLabel: two names x and y, built from every input form, and the      *)
(* DNSLabel operations on them.                                            *)
(***************************************************************************)
MaxText == 2
MaxLabels == 2

BytesAlphabet == {Dot, 65, 97}
ListLabels == {<<65>>, <<97>>, <<91>>, <<123>>}

Str(n, alphabet) == UNION {[1..k -> alphabet] : k \in 0..n}

BytesInputs == Str(MaxText, BytesAlphabet) \cup {L64}

ListValues == Str(MaxLabels, ListLabels)
ListInputs == ListValues \cup {<<L64>>, Long254, <<La, <<>>>>}

\* "", ".", "a", "a.", "A.a", "..", "a..a", "\097", "\046", "a\046A", "\09",
\* 64 letters, and 63.63.63.62 letters (254 characters)
Text254 == Rep(97, 63) \o <<Dot>> \o Rep(98, 63) \o <<Dot>> \o Rep(99, 63)
               \o <<Dot>> \o Rep(100, 62)
TextInputs ==
    { <<>>, <<Dot>>, <<97>>, <<97, Dot>>, <<65, Dot, 97>>, <<Dot, Dot>>,
      <<97, Dot, Dot, 97>>, <<Backslash, 48, 57, 55>>, <<Backslash, 48, 52, 54>>,
      <<97, Backslash, 48, 52, 54, 65>>, <<Backslash, 48, 57>>, L64, Text254 }

InitLabel ==
    /\ data = <<>>
    /\ offset = 0
    /\ names = EmptyDict
    /\ hist = <<>>
    /\ ret = NoRet
    /\ x = <<>>
    /\ y = <<>>
    /\ msg = NoMsg
    /\ bitop = NoBits
    /\ cli = NoCli

\* x = DNSLabel(input); x keeps its value when the constructor raises.
\* The operations below leave x and y alone and a second x = DNSLabel(...)
\* overwrites the first, so x is built as the first call or right after
\* y = DNSLabel(x): every pair (x, y) is still reached.
NewCall(in) ==
    LET r == DNSLabelInit(in)
    IN  /\ ret.op = "none" \/ (ret.op = "DNSLabel" /\ ret.arg.form = "name")
        /\ x' = IF r.st = "ok" THEN r.label ELSE x
        /\ ret' = [NoRet EXCEPT !.op = "DNSLabel", !.st = r.st, !.arg = in,
                                !.label = r.label]
        /\ UNCHANGED <<data, offset, names, hist, y, msg, bitop, cli>>

NewFromBytes == \E v \in BytesInputs : NewCall([form |-> "bytes", v |-> v])
NewFromList == \E v \in ListInputs : NewCall([form |-> "list", v |-> v])
NewFromText == \E v \in TextInputs : NewCall([form |-> "text", v |-> v])
NewFromNone == NewCall([form |-> "none", v |-> <<>>])

\* y = DNSLabel(x)
NewFromName ==
    LET in == [form |-> "name", v |-> x]
        r == DNSLabelInit(in)
    IN  /\ y' = r.label
        /\ ret' = [NoRet EXCEPT !.op = "DNSLabel", !.st = r.st, !.arg = in,
                                !.label = r.label]
        /\ UNCHANGED <<data, offset, names, hist, x, msg, bitop, cli>>

LabelCall(r) ==
    /\ ret' = r
    /\ UNCHANGED <<data, offset, names, hist, x, y, msg, bitop, cli>>

\* x.add(y)
Add == LabelCall([NoRet EXCEPT !.op = "add",
                               !.label = DNSLabelAdd(x, DNSLabelInit([form |-> "name", v |-> y]).label)])

\* x.matchSuffix(y)
MatchSuffix == LabelCall([NoRet EXCEPT !.op = "matchSuffix", !.flag = matchSuffix(x, y)])

\* x.stripSuffix(y)
StripSuffix == LabelCall([NoRet EXCEPT !.op = "stripSuffix", !.label = stripSuffix(x, y)])

\* x == y
Equals == LabelCall([NoRet EXCEPT !.op = "eq", !.flag = DNSLabelEq(x, y)])

\* hash(x)
Hash == LabelCall([NoRet EXCEPT !.op = "hash", !.val = DNSLabelHash(x)])

NextLabel ==
    \/ NewFromBytes \/ NewFromList \/ NewFromText \/ NewFromNone \/ NewFromName
    \/ Add \/ MatchSuffix \/ StripSuffix \/ Equals \/ Hash

SpecLabel == InitLabel /\ [][NextLabel]_vars

(***************************************************************************)
(* C7: no DNSLabel longer than 253, or with a label longer than 63 bytes,  *)
(* is ever constructed: the constructor fails for such an input.           *)
(***************************************************************************)
C7_ConstructorEnforcesLimits ==
    /\ WithinLimits(x)
    /\ WithinLimits(y)
    /\ (ret.op = "DNSLabel" /\ ret.st = "ok") => WithinLimits(ret.label)

(***************************************************************************)
(* C8: the last label of every DNSLabel is non-empty, and an input that    *)
(* is empty or only dots gives the root, the name with no labels.          *)
(***************************************************************************)
LastNonEmpty(label) == label = <<>> \/ label[Len(label)] # <<>>

C8_NoTrailingEmptyLabel ==
    /\ LastNonEmpty(x)
    /\ LastNonEmpty(y)
    /\ LastNonEmpty(ret.label)
    /\ (/\ ret.op = "DNSLabel"
        /\ ret.arg.form \in {"bytes", "text"}
        /\ \A i \in 1..Len(ret.arg.v) : ret.arg.v[i] = Dot)
       => (ret.st = "ok" /\ ret.label = <<>>)

(***************************************************************************)
(* C9: == on names is an equivalence relation, true exactly when the two   *)
(* names have the same number of labels and each pair of labels has the    *)
(* same bytes up to the case of ASCII letters; equal names have equal      *)
(* hashes.                                                                 *)
(***************************************************************************)
IsAsciiLetter(b) == (b >= 65 /\ b <= 90) \/ (b >= 97 /\ b <= 122)

SameByteIgnoringAsciiCase(a, b) ==
    \/ a = b
    \/ IsAsciiLetter(a) /\ IsAsciiLetter(b) /\ (a - b = 32 \/ b - a = 32)

SameNameIgnoringAsciiCase(a, b) ==
    /\ Len(a) = Len(b)
    /\ \A i \in 1..Len(a) :
          /\ Len(a[i]) = Len(b[i])
          /\ \A j \in 1..Len(a[i]) : SameByteIgnoringAsciiCase(a[i][j], b[i][j])

C9_EqualityAndHash ==
    /\ DNSLabelEq(x, x)
    /\ DNSLabelEq(x, y) = DNSLabelEq(y, x)
    /\ DNSLabelEq(x, y) => \A z \in ListValues : DNSLabelEq(y, z) => DNSLabelEq(x, z)
    /\ DNSLabelEq(x, y) = SameNameIgnoringAsciiCase(x, y)
    /\ DNSLabelEq(x, y) => DNSLabelHash(x) = DNSLabelHash(y)
    /\ ret.op = "eq" => ret.flag = SameNameIgnoringAsciiCase(x, y)

\* two names of two labels that differ in case only compare equal
C9_Witness ==
    /\ ret.op = "eq" /\ ret.flag
    /\ x = <<<<97>>, <<65>>>> /\ y = <<<<65>>, <<97>>>>
    /\ DNSLabelHash(x) = DNSLabelHash(y)

(***************************************************************************)
(* C10: x.matchSuffix(y) is true exactly when the labels of y are, up to   *)
(* ASCII case, the last labels of x (the root is a suffix of every name);  *)
(* then x.stripSuffix(y) is the name p with y.add(p) == x, and otherwise   *)
(* it is x.                                                                *)
(***************************************************************************)
IsSuffixIgnoringAsciiCase(s, n) ==
    /\ Len(s) <= Len(n)
    /\ SameNameIgnoringAsciiCase(s, SubSeq(n, Len(n) - Len(s) + 1, Len(n)))

C10_SuffixMatchAndStrip ==
    /\ ret.op = "matchSuffix" => ret.flag = IsSuffixIgnoringAsciiCase(y, x)
    /\ ret.op = "stripSuffix"
       => IF IsSuffixIgnoringAsciiCase(y, x)
          THEN SameNameIgnoringAsciiCase(DNSLabelAdd(y, ret.label), x)
          ELSE ret.label = x

(***************************************************************************)
(* SpecMsg: check_decode's round trip of one message.  A message here has  *)
(* a header and questions only: the wire is a 12-byte header whose         *)
(* answer, authority and additional counts are 0, followed by body bytes.  *)
(* DNSRecord.parse reads the header and qdcount questions (a name, qtype,  *)
(* qclass); DNSRecord.pack writes the header with the counts taken from    *)
(* the lists, then each question through encode_name with one compression  *)
(* table for the whole message.                                            *)
(***************************************************************************)
MaxBody == 6
MaxQuestions == 2

U16(d, o) == d[o + 1] * 256 + d[o + 2]

RECURSIVE ParseQuestions(_, _, _, _)
ParseQuestions(d, o, n, acc) ==
    IF n = 0 THEN [st |-> "ok", q |-> acc]
    ELSE LET r == decode_name(d, o)
         IN  IF r.st # "ok" THEN [st |-> r.st, q |-> <<>>]
             ELSE IF Remaining(d, r.offset) < 4 THEN [st |-> "BufferError", q |-> <<>>]
             ELSE ParseQuestions(d, r.offset + 4, n - 1,
                                 Append(acc, [qname |-> r.label,
                                              qtype |-> U16(d, r.offset),
                                              qclass |-> U16(d, r.offset + 2)]))

ParseRecord(d) ==
    IF Len(d) < 12 THEN [st |-> "BufferError"]
    ELSE IF U16(d, 6) # 0 \/ U16(d, 8) # 0 \/ U16(d, 10) # 0 THEN [st |-> "NotModelled"]
    ELSE LET qs == ParseQuestions(d, 12, U16(d, 4), <<>>)
         IN  IF qs.st # "ok" THEN [st |-> qs.st]
             ELSE [st |-> "ok", id |-> U16(d, 0), bitmap |-> U16(d, 2), q |-> qs.q]

RECURSIVE PackQuestions(_, _, _)
PackQuestions(d, nm, q) ==
    IF q = <<>> THEN [st |-> "ok", data |-> d]
    ELSE LET r == encode_name(d, Len(d), nm, Head(q).qname)
         IN  IF r.st # "ok" THEN [st |-> r.st, data |-> r.data]
             ELSE PackQuestions(
                      BufWrite(r.data, PackH(Head(q).qtype) \o PackH(Head(q).qclass)),
                      r.names, Tail(q))

PackRecord(m) ==
    PackQuestions(PackH(m.id) \o PackH(m.bitmap) \o PackH(Len(m.q))
                      \o PackH(0) \o PackH(0) \o PackH(0),
                  EmptyDict, m.q)

MsgAlphabet == {0, 1, 97, 192}
MsgIds == {<<0, 0>>, <<1, 97>>}

Wires ==
    {id \o <<0, 0>> \o <<0, n>> \o <<0, 0, 0, 0, 0, 0>> \o body :
        id \in MsgIds, n \in 0..MaxQuestions, body \in Str(MaxBody, MsgAlphabet)}

InitMsg ==
    /\ data = <<>>
    /\ offset = 0
    /\ names = EmptyDict
    /\ hist = <<>>
    /\ ret = NoRet
    /\ x = <<>>
    /\ y = <<>>
    /\ \E w \in Wires : msg = [pc |-> "start", wire |-> w]
    /\ bitop = NoBits
    /\ cli = NoCli

\* qparse = DNSRecord.parse(qdata)
Parse ==
    /\ msg.pc = "start"
    /\ LET r == ParseRecord(msg.wire)
       IN  msg' = IF r.st = "ok"
                  THEN [pc |-> "parsed", wire |-> msg.wire, m |-> r]
                  ELSE [pc |-> "unparsable", wire |-> msg.wire, st |-> r.st]
    /\ UNCHANGED <<data, offset, names, hist, ret, x, y, bitop, cli>>

\* qpack = qparse.pack()
Pack ==
    /\ msg.pc = "parsed"
    /\ LET r == PackRecord(msg.m)
       IN  msg' = IF r.st = "ok"
                  THEN [pc |-> "packed", wire |-> msg.wire, m |-> msg.m, packed |-> r.data]
                  ELSE [pc |-> "pack_error", wire |-> msg.wire, m |-> msg.m, st |-> r.st]
    /\ UNCHANGED <<data, offset, names, hist, ret, x, y, bitop, cli>>

\* the comparison of check_decode: a repack that differs must be shorter
\* and must re-parse and re-pack to itself
RepackStable(p) ==
    LET m2 == ParseRecord(p)
    IN  m2.st = "ok" /\ PackRecord(m2).st = "ok" /\ PackRecord(m2).data = p

PackErrors(wire, packed) ==
    IF packed # wire
    THEN IF Len(packed) < Len(wire)
         THEN IF ~RepackStable(packed) THEN <<"Question Pack">> ELSE <<>>
         ELSE <<"Question Pack">>
    ELSE <<>>

Compare ==
    /\ msg.pc = "packed"
    /\ msg' = [pc |-> "checked", wire |-> msg.wire, m |-> msg.m, packed |-> msg.packed,
               errors |-> PackErrors(msg.wire, msg.packed)]
    /\ UNCHANGED <<data, offset, names, hist, ret, x, y, bitop, cli>>

NextMsg == Parse \/ Pack \/ Compare

SpecMsg == InitMsg /\ [][NextMsg]_vars

(***************************************************************************)
(* C2: a wire that parses repacks to itself, or to something strictly      *)
(* shorter that re-parses and re-packs to itself; the repack never is      *)
(* longer, never differs at equal length, and never fails.                 *)
(***************************************************************************)
C2_RepackEqualOrShorterAndStable ==
    /\ msg.pc # "pack_error"
    /\ msg.pc = "checked" => msg.errors = <<>>

(***************************************************************************)
(* SpecBits: r = set_bits(data, value, offset, bits), then                 *)
(* get_bits(r, offset, bits).  The inputs include data wider than 16 bits  *)
(* and fields at or above bit 16.                                          *)
(***************************************************************************)
MaxBitOffset == 17
MaxBitWidth == 3
MaxBitValue == 9
BitsChecked == 24

BitsData == {0, 1, 21845, 65535, 65536, 74565, 16777215}

InitBits ==
    /\ data = <<>>
    /\ offset = 0
    /\ names = EmptyDict
    /\ hist = <<>>
    /\ ret = NoRet
    /\ x = <<>>
    /\ y = <<>>
    /\ msg = NoMsg
    /\ cli = NoCli
    /\ \E d \in BitsData, v \in 0..MaxBitValue, o \in 0..MaxBitOffset, w \in 1..MaxBitWidth :
           bitop = [pc |-> "input", data |-> d, value |-> v, offset |-> o, width |-> w]

SetBits ==
    /\ bitop.pc = "input"
    /\ bitop' = [pc |-> "set", data |-> bitop.data, value |-> bitop.value,
                offset |-> bitop.offset, width |-> bitop.width,
                result |-> set_bits(bitop.data, bitop.value, bitop.offset, bitop.width)]
    /\ UNCHANGED <<data, offset, names, hist, ret, x, y, msg, cli>>

GetBits ==
    /\ bitop.pc = "set"
    /\ bitop' = [pc |-> "got", data |-> bitop.data, value |-> bitop.value,
                offset |-> bitop.offset, width |-> bitop.width, result |-> bitop.result,
                field |-> get_bits(bitop.result, bitop.offset, bitop.width)]
    /\ UNCHANGED <<data, offset, names, hist, ret, x, y, msg, cli>>

NextBits == SetBits \/ GetBits

SpecBits == InitBits /\ [][NextBits]_vars

\* bit i of a non-negative integer
BitOf(n, i) == (n \div Pow2(i)) % 2

(***************************************************************************)
(* C11: get_bits reads back value mod 2^width from the result of set_bits, *)
(* and set_bits leaves every bit outside [offset, offset + width) as it    *)
(* was in data, also for data wider than 16 bits and fields at or above    *)
(* bit 16.                                                                 *)
(***************************************************************************)
C11_SetGetBits ==
    /\ bitop.pc = "got" => bitop.field = bitop.value % Pow2(bitop.width)
    /\ bitop.pc \in {"set", "got"} =>
           \A i \in 0..BitsChecked :
               (i < bitop.offset \/ i >= bitop.offset + bitop.width)
                   => BitOf(bitop.result, i) = BitOf(bitop.data, i)

(***************************************************************************)
(* What an encode_name call is expected to write, computed from the table  *)
(* as it was before the call.                                              *)
(***************************************************************************)
Suffix(n, i) == SubSeq(n, i, Len(n))

\* the index where the longest cached non-empty suffix of n starts,
\* Len(n) + 1 when none is cached
CachedFrom(nm, n) ==
    LET hits == {i \in 1..Len(n) : Suffix(n, i) \in DOMAIN nm}
    IN  IF hits = {} THEN Len(n) + 1 ELSE CHOOSE i \in hits : \A j \in hits : i <= j

\* the length-prefixed labels n[1] .. n[k - 1]
RECURSIVE LiteralLabels(_, _)
LiteralLabels(n, k) ==
    IF k <= 1 THEN <<>>
    ELSE LiteralLabels(n, k - 1) \o <<Len(n[k - 1])>> \o n[k - 1]

\* the two bytes 11xxxxxx xxxxxxxx of a pointer to off
PointerBytes(off) == <<192 + (off \div 256), off % 256>>

ExpectedBytes(nm, n) ==
    LET k == CachedFrom(nm, n)
    IN  LiteralLabels(n, k)
            \o (IF k <= Len(n) THEN PointerBytes(nm[Suffix(n, k)]) ELSE <<0>>)

(***************************************************************************)
(* C12: an encode_name call with a valid name, made at the end of the      *)
(* buffer, appends the labels before the longest cached suffix literally,  *)
(* then a 2-byte pointer to that suffix, or a zero byte when no suffix is  *)
(* cached; the cursor moves by the number of bytes appended (2 for a name  *)
(* that is cached whole); every suffix written literally enters the table  *)
(* at the offset of its length byte and no other entry changes.            *)
(***************************************************************************)
C12_EncodeNameWrites ==
    [][ (hist' # hist /\ ret'.op = "encode_name" /\ IsValidName(ret'.arg)) =>
          LET n == ret'.arg
              k == CachedFrom(names, n)
              w == ExpectedBytes(names, n)
          IN  /\ ret'.st = "ok"
              /\ data' = data \o w
              /\ offset' = offset + Len(w)
              /\ Len(w) = SumLen(SubSeq(n, 1, k - 1)) + (k - 1)
                              + (IF k <= Len(n) THEN 2 ELSE 1)
              /\ (n # <<>> /\ n \in DOMAIN names) => Len(data') = Len(data) + 2
              /\ DOMAIN names' = DOMAIN names \cup {Suffix(n, i) : i \in 1..(k - 1)}
              /\ \A key \in DOMAIN names : names'[key] = names[key]
              /\ \A i \in 1..(k - 1) :
                     /\ names'[Suffix(n, i)] = Len(data) + Len(LiteralLabels(n, i))
                     /\ data'[names'[Suffix(n, i)] + 1] = Len(n[i])
    ]_vars

\* b.a.b written after b and a.b: one literal label, then a pointer to a.b
C12_Witness ==
    /\ Len(hist) = 3
    /\ ret.op = "encode_name" /\ ret.st = "ok" /\ ret.arg = <<Lb, La, Lb>>
    /\ data = <<1, 98, 0, 1, 97, 192, 0, 1, 98, 192, 3>>
    /\ names = (<<Lb>> :> 0) @@ (<<La, Lb>> :> 3) @@ (<<Lb, La, Lb>> :> 7)

(***************************************************************************)
(* SpecBig: encode_name calls on a buffer that already holds about 2^14    *)
(* bytes (b = DNSBuffer(); b.append(bytes(n))), so that names are cached   *)
(* at offsets below, at and above 2^14.                                    *)
(***************************************************************************)
MaxBigCalls == 2

BigLens == {Pow2(PointerBits) - 2, Pow2(PointerBits), Pow2(PointerBits) + 1}

InitBig ==
    /\ \E n \in BigLens : data = Rep(0, n) /\ offset = n
    /\ names = EmptyDict
    /\ hist = <<>>
    /\ ret = NoRet
    /\ x = <<>>
    /\ y = <<>>
    /\ msg = NoMsg
    /\ bitop = NoBits
    /\ cli = NoCli

BigEncodeName ==
    /\ Len(hist) < MaxBigCalls
    /\ offset = Len(data)
    /\ \E n \in CodecNames :
          EncodeCall("encode_name", encode_name(data, offset, names, n), n)

NextBig == BigEncodeName

SpecBig == InitBig /\ [][NextBig]_vars

(***************************************************************************)
(* C13: when encode_name finds a suffix of the name in the table and       *)
(* writes a pointer, the 16-bit value written has high bits 11 and its low *)
(* 14 bits are the cached offset, whatever that offset is.                 *)
(***************************************************************************)
C13_PointerDesignatesCachedOffset ==
    [][ (/\ hist' # hist
         /\ ret'.op = "encode_name"
         /\ ret'.st = "ok"
         /\ CachedFrom(names, ret'.arg) <= Len(ret'.arg)) =>
          LET n == ret'.arg
              cached == names[Suffix(n, CachedFrom(names, n))]
              v == U16(data', Len(data') - 2)
          IN  /\ v \div Pow2(PointerBits) = 3
              /\ v % Pow2(PointerBits) = cached
    ]_vars

(***************************************************************************)
(* C14: in every state of the buffer reached by encode_name and            *)
(* encode_name_nocompress calls, calls that raised included, every entry   *)
(* suffix -> offset of names has its offset inside the written data, and   *)
(* decode_name at that offset returns exactly that suffix.                 *)
(***************************************************************************)
C14_TableSound ==
    \A key \in DOMAIN names :
        /\ names[key] < Len(data)
        /\ LET r == decode_name(data, names[key])
           IN  r.st = "ok" /\ r.label = key

(***************************************************************************)
(* SpecClient: the query exchange of the client (client.py), without       *)
(* --dig.  The options are noretry, tcp and diff (an alternate server is   *)
(* given).  A reply is what the network returns: any transaction id and    *)
(* any TC flag.  sends lists the queries sent, as [server, tcp].           *)
(***************************************************************************)
MaxId == 2

Ids == 1..MaxId
Replies == [id : Ids, tc : BOOLEAN]
NoReply == [id |-> 0, tc |-> FALSE]

InitClient ==
    /\ data = <<>>
    /\ offset = 0
    /\ names = EmptyDict
    /\ hist = <<>>
    /\ ret = NoRet
    /\ x = <<>>
    /\ y = <<>>
    /\ msg = NoMsg
    /\ bitop = NoBits
    /\ \E qid \in Ids, noretry \in BOOLEAN, tcp \in BOOLEAN, diff \in BOOLEAN :
           cli = [pc |-> "start", qid |-> qid, noretry |-> noretry, tcp |-> tcp,
                  diff |-> diff, a |-> NoReply, a_diff |-> NoReply, sends |-> <<>>]

ClientStep(c) ==
    /\ cli' = c
    /\ UNCHANGED <<data, offset, names, hist, ret, x, y, msg, bitop>>

\* a_pkt = q.send(address, port, tcp=args.tcp); a = DNSRecord.parse(a_pkt)
Send ==
    /\ cli.pc = "start"
    /\ \E r \in Replies :
           ClientStep([cli EXCEPT !.pc = "got", !.a = r,
                           !.sends = Append(@, [server |-> "main", tcp |-> cli.tcp])])

\* if q.header.id != a.header.id: raise DNSError(...)
CheckId ==
    /\ cli.pc = "got"
    /\ ClientStep([cli EXCEPT !.pc = IF cli.qid # cli.a.id THEN "DNSError" ELSE "checked"])

\* if a.header.tc and args.noretry == False: send again over TCP, parse
Retry ==
    /\ cli.pc = "checked"
    /\ IF cli.a.tc /\ cli.noretry = FALSE
       THEN \E r \in Replies :
                ClientStep([cli EXCEPT !.pc = "answered", !.a = r,
                                !.sends = Append(@, [server |-> "main", tcp |-> TRUE])])
       ELSE ClientStep([cli EXCEPT !.pc = "answered"])

\* if args.diff: diff = q_diff.send(address, port, tcp=args.tcp); a_diff = parse(diff)
DiffSend ==
    /\ cli.pc = "answered"
    /\ IF cli.diff
       THEN \E r \in Replies :
                ClientStep([cli EXCEPT !.pc = "diff_got", !.a_diff = r,
                                !.sends = Append(@, [server |-> "diff", tcp |-> cli.tcp])])
       ELSE ClientStep([cli EXCEPT !.pc = "compared"])

\* if a_diff.header.tc and args.noretry == False: send again over TCP, parse
DiffRetry ==
    /\ cli.pc = "diff_got"
    /\ IF cli.a_diff.tc /\ cli.noretry = FALSE
       THEN \E r \in Replies :
                ClientStep([cli EXCEPT !.pc = "compared", !.a_diff = r,
                                !.sends = Append(@, [server |-> "diff", tcp |-> TRUE])])
       ELSE ClientStep([cli EXCEPT !.pc = "compared"])

\* print(a); with --diff: a != a_diff is reported
PrintAnswer ==
    /\ cli.pc = "compared"
    /\ ClientStep([cli EXCEPT !.pc = "printed"])

NextClient == Send \/ CheckId \/ Retry \/ DiffSend \/ DiffRetry \/ PrintAnswer

SpecClient == InitClient /\ [][NextClient]_vars

SendsTo(server) == SelectSeq(cli.sends, LAMBDA s : s.server = server)

(***************************************************************************)
(* C15: a reply that is printed, or compared as the alternate server's     *)
(* reply, carries the query's transaction id, the reply to a TCP retry     *)
(* included; the exchange ends in DNSError only on an id mismatch; each    *)
(* server gets at most one retry, over TCP, and only without --noretry.    *)
(***************************************************************************)
C15_AcceptedReplyHasQueryId ==
    /\ cli.pc = "printed" =>
           /\ cli.a.id = cli.qid
           /\ cli.diff => cli.a_diff.id = cli.qid
    /\ cli.pc = "DNSError" => cli.a.id # cli.qid
    /\ cli.pc # "idle" =>
           \A server \in {"main", "diff"} :
               /\ Len(SendsTo(server)) <= 2
               /\ Len(SendsTo(server)) = 2 =>
                      SendsTo(server)[2].tcp /\ cli.noretry = FALSE

====
